---- MODULE Spec2Model ----
(***************************************************************************)
(* Model of the stack-future crate: the fixed-capacity containers          *)
(* (LocalStackFuture and StackFuture of stack_future.rs, StackFuture of    *)
(* lib.rs) and the adaptive containers (SmallFuture, SmallFutureSend of    *)
(* small_future.rs).  One container is followed through its life:          *)
(* construction from a concrete future F, moves, pinning, polls, transfer  *)
(* to another thread, and drop.                                            *)
(***************************************************************************)
EXTENDS Integers, Sequences, FiniteSets, TLC

(* ------------------------------ bounds --------------------------------- *)
\* most Pending results a concrete future yields before it finishes
MaxSteps == 1
\* most polls of one container
MaxPolls == 2
\* most relocations of the container a caller performs
MaxMoves == 1
\* number of distinct places (stack slots) a container can live in
NumAddrs == 2

(* ------------------------- program constants --------------------------- *)
\* #[repr(align(8))] struct AlignedBuffer: align_of::<AlignedBuffer<N>>()
BufferAlign == 8

(* ------------------------------ inputs --------------------------------- *)
\* const N of the container type
Caps == {16, 1024}
\* size_of::<F>() and align_of::<F>() of the concrete futures
Sizes == {0, 16, 1024}
Aligns == {1, 8, 256}
\* output values of the futures (simple() gives 42, complex() gives 4950)
Outs == {42, 4950}

\* A concrete future type F: its layout, whether it is Send, whether it keeps
\* a reference into itself across an await, how many times it is Pending,
\* and whether it finishes with a value or with a panic.
Futures ==
    { f \in [size : Sizes, align : Aligns, send : BOOLEAN, selfRef : BOOLEAN,
             steps : 0..MaxSteps, out : Outs, panics : BOOLEAN] :
        f.size % f.align = 0 }

NoFut == [size |-> 0, align |-> 1, send |-> TRUE, selfRef |-> FALSE,
          steps |-> 0, out |-> 0, panics |-> FALSE]

FixedKinds == {"LocalStackFuture", "StackFuture", "LibStackFuture"}
SmallKinds == {"SmallFuture", "SmallFutureSend"}
Kinds == FixedKinds \cup SmallKinds

Addrs == 1..NumAddrs
\* address of the block the allocator hands out, apart from every stack slot
HeapAddr == NumAddrs + 1
\* the place where the reference copy of F is polled directly
DirectAddr == NumAddrs + 2

(* --------------------------- type-level facts -------------------------- *)
\* the bound `F: Send` on the constructor
NewRequiresSend(k) == k \in {"StackFuture", "SmallFutureSend"}

\* the PhantomData<Rc<()>> marker field
HasRcMarker(k) == k \in {"LocalStackFuture", "SmallFuture"}

\* the PhantomPinned marker field
HasPhantomPinned(k) == k \in {"LocalStackFuture", "StackFuture", "SmallFuture", "SmallFutureSend"}

\* auto trait Send: every field is Send (u8 array, &VTable of fn pointers,
\* HeapBuffer by its unsafe impl), unless the Rc marker is present
IsSend(k) == ~HasRcMarker(k)

\* auto trait Unpin: every field is Unpin unless PhantomPinned is present
IsUnpin(k) == ~HasPhantomPinned(k)

(* ------------------------------ results -------------------------------- *)
NoResult == [tag |-> "None", a |-> 0, b |-> 0]
Ok == [tag |-> "Ok", a |-> 0, b |-> 0]
SizeTooLarge(size, max_size) == [tag |-> "SizeTooLarge", a |-> size, b |-> max_size]
AlignmentMismatch(alignment, expected) ==
    [tag |-> "AlignmentMismatch", a |-> alignment, b |-> expected]
\* construction left by panic!("Heap allocation failed")
AllocPanic == [tag |-> "Panic", a |-> 0, b |-> 0]

NoPoll == [tag |-> "None", val |-> 0]
Pending == [tag |-> "Pending", val |-> 0]
Ready(v) == [tag |-> "Ready", val |-> v]
PollPanic == [tag |-> "Panic", val |-> 0]

\* the bytes of a future: how far it has run and, for a self-referential
\* future, the address its internal reference points to (0: none yet)
NoState == [live |-> FALSE, pos |-> 0, self |-> 0]
FreshState == [live |-> TRUE, pos |-> 0, self |-> 0]

NoHeap == [live |-> FALSE, size |-> 0, align |-> 0]

\* the dispatch table written as a literal in lib.rs and small_future.rs:
\* its two closures are specialised to the type F
VTable_lit(f) == [poll |-> f, drop |-> f]

\* VTable::new::<F>() of the crate root, called by StackFutureImpl::new: one
\* advance and one destroy operation bound to the type F
VTable_new(f) == [poll |-> f, drop |-> f]

NoVTable == VTable_lit(NoFut)

VARIABLES
    strategy,   \* panic strategy of the build: "unwind" or "abort"
    alive,      \* the process is running
    unwinding,  \* a panic is propagating
    caught,     \* a panic was caught by the caller (catch_unwind)
    phase,      \* "start", "built", "error", "panicked", "aborted", "released"
    kind,       \* container type constructed
    cap,        \* its capacity N
    fut,        \* the concrete future type F handed to new
    result,     \* what new returned
    storage,    \* "None", "Inline", "Heap"
    buffer,     \* bytes of the stored future
    vtable,     \* the type the container's VTable was built for
    heap,       \* the HeapBuffer: pointer liveness and layout
    caddr,      \* address of the container
    pinned,     \* the caller holds the container behind Pin
    nmoves,     \* relocations of the container made by the caller
    moves,      \* times the future's bytes were copied to another place
    polls,      \* polls of the container
    lastPoll,   \* result of the last poll of the container
    direct,     \* bytes of a reference copy of F polled directly
    directPoll, \* result of the last poll of the reference copy
    pollAddrs,  \* addresses at which the stored future was polled
    drops,      \* destructor runs on the future
    thread,     \* thread that owns the container
    log         \* allocator and dispatch-table events, in order

vars == <<strategy, alive, unwinding, caught, phase, kind, cap, fut, result,
          storage, buffer, vtable, heap, caddr, pinned, nmoves, moves, polls,
          lastPoll, direct, directPoll, pollAddrs, drops, thread, log>>

Init ==
    /\ strategy \in {"unwind", "abort"}
    /\ alive = TRUE
    /\ unwinding = FALSE
    /\ caught = FALSE
    /\ phase = "start"
    /\ kind = "None"
    /\ cap = 0
    /\ fut = NoFut
    /\ result = NoResult
    /\ storage = "None"
    /\ buffer = NoState
    /\ vtable = NoVTable
    /\ heap = NoHeap
    /\ caddr = 0
    /\ pinned = FALSE
    /\ nmoves = 0
    /\ moves = 0
    /\ polls = 0
    /\ lastPoll = NoPoll
    /\ direct = NoState
    /\ directPoll = NoPoll
    /\ pollAddrs = {}
    /\ drops = 0
    /\ thread = 1
    /\ log = <<>>

(* ------------------------- the concrete future ------------------------- *)
\* One poll of a future of type f whose bytes st lie at address p: the set of
\* possible (result, new bytes).  A self-referential future that was polled
\* at another address holds a dangling reference: the poll is undefined and
\* may give any result.
PollOutcomes(f, st, p) ==
    IF f.selfRef /\ st.self # 0 /\ st.self # p
    THEN { [res |-> r, st |-> st] :
             r \in {Pending, PollPanic} \cup { Ready(o) : o \in Outs } }
    ELSE { [res |-> IF st.pos < f.steps THEN Pending
                    ELSE IF f.panics THEN PollPanic ELSE Ready(f.out),
            st  |-> [live |-> TRUE, pos |-> st.pos + 1,
                     self |-> IF f.selfRef THEN p ELSE 0]] }

\* a poll entry that polls a copy of the bytes, so that the stored future
\* never advances
VTable_poll_copy(vt, bytes, ptr) ==
    { [res |-> o.res, st |-> bytes] : o \in PollOutcomes(vt.poll, bytes, ptr) }

\* the poll entry of the dispatch table: reads the bytes at ptr as the type
\* the table was built for and polls that future in place
VTable_poll(vt, bytes, ptr) == PollOutcomes(vt.poll, bytes, ptr)

\* the drop entry of the dispatch table: drop_in_place on the bytes at ptr
VTable_drop(vt, bytes) == [bytes EXCEPT !.live = FALSE]

(* ---------------------------- construction ----------------------------- *)
\* the two checks in the other order
StackFutureImpl_new_alignFirst(f, n) ==
    IF f.align > BufferAlign THEN AlignmentMismatch(f.align, BufferAlign)
    ELSE IF f.size > n THEN SizeTooLarge(f.size, n)
    ELSE Ok

\* the alignment check left out
StackFutureImpl_new_noAlign(f, n) ==
    IF f.size > n THEN SizeTooLarge(f.size, n) ELSE Ok

\* StackFutureImpl::new up to the write: size check, then alignment check
StackFutureImpl_new(f, n) ==
    IF f.size > n THEN SizeTooLarge(f.size, n)
    ELSE IF f.align > BufferAlign THEN AlignmentMismatch(f.align, BufferAlign)
    ELSE Ok

\* StackFuture::new of lib.rs up to the write
LibStackFuture_new(f, n) ==
    IF f.size > n THEN SizeTooLarge(f.size, n)
    ELSE IF f.align > BufferAlign THEN AlignmentMismatch(f.align, BufferAlign)
    ELSE Ok

\* LocalStackFuture::new and StackFuture::new pass the result on with `?`
FixedNew(k, f, n) ==
    IF k = "LibStackFuture" THEN LibStackFuture_new(f, n)
    ELSE StackFutureImpl_new(f, n)

\* the fit test with `||` for `&&`
SmallFutureState_new_or(f, n) ==
    IF f.size <= n \/ f.align <= BufferAlign THEN "Inline" ELSE "Heap"

\* the fit test with `<` for `<=` on the alignment
SmallFutureState_new_strictAlign(f, n) ==
    IF f.size <= n /\ f.align < BufferAlign THEN "Inline" ELSE "Heap"

\* SmallFutureState::new: the choice of storage
SmallFutureState_new(f, n) ==
    IF f.size <= n /\ f.align <= BufferAlign THEN "Inline" ELSE "Heap"

\* the fit test with `<` for `<=` on the size
SmallFutureSendState_new_strict(f, n) ==
    IF f.size < n /\ f.align <= BufferAlign THEN "Inline" ELSE "Heap"

\* SmallFutureSendState::new: the choice of storage
SmallFutureSendState_new(f, n) ==
    IF f.size <= n /\ f.align <= BufferAlign THEN "Inline" ELSE "Heap"

SmallNew(k, f, n) ==
    IF k = "SmallFutureSend" THEN SmallFutureSendState_new(f, n)
    ELSE SmallFutureState_new(f, n)

\* HeapBuffer::new::<F>(): the layout is that of F; null is what alloc gave
HeapBuffer_new(f, null) == [live |-> ~null, size |-> f.size, align |-> f.align]

\* the parameter forgotten on every path (mem::forget before the checks)
DropsAtReturn_forget(r) == 0

\* the bytes copied into the storage while `future` stays owned by new
DropsAtReturn_copy(r) == 1

\* Runs of F's destructor on the parameter `future` when new returns r: the
\* value is moved into the storage by ptr::write on the Ok path, and is
\* still owned by new, hence dropped at the return, on the Err path
DropsAtReturn(r) == IF r = Ok THEN 0 ELSE 1

\* ptr::write(buffer as *mut F, future): the bytes of the future handed in
ptr_write(bytes) == bytes

\* buffer.buffer.as_mut_ptr() of the inline buffer, buffer.as_mut_ptr() of
\* the HeapBuffer
as_mut_ptr(st, c) == IF st = "Heap" THEN HeapAddr ELSE c

Event(op, a, size, align) == [op |-> op, addr |-> a, size |-> size, align |-> align]

\* a HeapBuffer drop that rebuilds the layout with the alignment of the
\* inline buffer instead of using the stored one
HeapBuffer_drop_inlineAlign(hp) ==
    << Event("dealloc", HeapAddr, hp.size, BufferAlign) >>

\* Drop for HeapBuffer: dealloc(self.ptr, self.layout), the layout being the
\* one stored by HeapBuffer::new
HeapBuffer_drop(hp) == << Event("dealloc", HeapAddr, hp.size, hp.align) >>

\* What the drop of a container does, in order: Drop::drop matches on the
\* state and calls the table's drop on the pointer of that storage; then
\* the fields are dropped, which for the Heap state drops the HeapBuffer
Container_drop(st, ptr, hp) ==
    << Event("drop", ptr, 0, 0) >>
        \o (IF st = "Heap" THEN HeapBuffer_drop(hp) ELSE << >>)

\* a poll that gives the heap block up and goes over to the Inline state
\* once the future is Ready
Container_poll_takeOnReady(st, vt, bytes, c) ==
    { [res |-> o.res, bytes |-> o.st,
       state |-> IF o.res.tag = "Ready" THEN "Inline" ELSE st] :
        o \in VTable_poll(vt, bytes, as_mut_ptr(st, c)) }

\* Future::poll of a container in state st at address c: the match borrows
\* the state (`&mut this.0`), takes the pointer of that storage and calls the
\* table's poll on it; the state itself is not assigned
Container_poll(st, vt, bytes, c) ==
    { [res |-> o.res, bytes |-> o.st, state |-> st] :
        o \in VTable_poll(vt, bytes, as_mut_ptr(st, c)) }

(* ------------------------------ actions -------------------------------- *)
\* LocalStackFuture::new, StackFuture::new (stack_future.rs), StackFuture::new (lib.rs)
NewFixed(k, n, f) ==
    /\ phase = "start" /\ alive
    /\ k \in FixedKinds
    /\ NewRequiresSend(k) => f.send
    /\ LET r == FixedNew(k, f, n) IN
       /\ kind' = k /\ cap' = n /\ fut' = f /\ result' = r
       /\ IF r = Ok
          THEN /\ phase' = "built"
               /\ storage' = "Inline"
               /\ vtable' = (IF k = "LibStackFuture" THEN VTable_lit(f)
                              ELSE VTable_new(f))
               /\ buffer' = ptr_write(FreshState)
               /\ caddr' = 1
               /\ moves' = moves + 1
               /\ direct' = FreshState
               /\ drops' = drops + DropsAtReturn(r)
          ELSE /\ phase' = "error"
               /\ drops' = drops + DropsAtReturn(r)
               /\ UNCHANGED <<storage, vtable, buffer, caddr, moves, direct>>
    /\ UNCHANGED <<strategy, alive, unwinding, caught, heap, pinned, nmoves,
                   polls, lastPoll, directPoll, pollAddrs, thread, log>>

\* SmallFuture::new, SmallFutureSend::new; null: alloc returned a null pointer
NewSmall(k, n, f, null) ==
    /\ phase = "start" /\ alive
    /\ k \in SmallKinds
    /\ NewRequiresSend(k) => f.send
    /\ kind' = k /\ cap' = n /\ fut' = f
    /\ IF SmallNew(k, f, n) = "Inline"
       THEN /\ phase' = "built"
            /\ result' = Ok
            /\ storage' = "Inline"
            /\ vtable' = VTable_lit(f)
            /\ buffer' = ptr_write(FreshState)
            /\ caddr' = 1
            /\ moves' = moves + 1
            /\ direct' = FreshState
            /\ drops' = drops + DropsAtReturn(Ok)
            /\ UNCHANGED <<heap, log, alive, unwinding>>
       ELSE LET hb == HeapBuffer_new(f, null) IN
            /\ log' = Append(log, Event("alloc", HeapAddr, hb.size, hb.align))
            /\ IF hb.live
               THEN /\ phase' = "built"
                    /\ result' = Ok
                    /\ storage' = "Heap"
                    /\ vtable' = VTable_lit(f)
                    /\ heap' = hb
                    /\ buffer' = ptr_write(FreshState)
                    /\ caddr' = 1
                    /\ moves' = moves + 1
                    /\ direct' = FreshState
                    /\ drops' = drops + DropsAtReturn(Ok)
                    /\ UNCHANGED <<alive, unwinding>>
               ELSE \* panic!("Heap allocation failed")
                    /\ result' = AllocPanic
                    /\ IF strategy = "abort"
                       THEN /\ alive' = FALSE
                            /\ phase' = "aborted"
                            /\ UNCHANGED <<drops, unwinding>>
                       ELSE \* the unwind drops `future`, still owned by new
                            /\ phase' = "panicked"
                            /\ unwinding' = TRUE
                            /\ drops' = drops + DropsAtReturn(AllocPanic)
                            /\ alive' = alive
                    /\ UNCHANGED <<storage, vtable, heap, buffer, caddr, moves, direct>>
    /\ UNCHANGED <<strategy, caught, pinned, nmoves, polls, lastPoll,
                   directPoll, pollAddrs, thread>>

\* the caller moves the container to another place (let g = f, Box::new(f),
\* OnceLock::set(f)); possible until it is pinned, and always if it is Unpin
Move(a) ==
    /\ phase = "built" /\ alive /\ ~unwinding
    /\ ~pinned \/ IsUnpin(kind)
    /\ nmoves < MaxMoves
    /\ a # caddr
    /\ caddr' = a
    /\ nmoves' = nmoves + 1
    /\ moves' = IF storage = "Inline" THEN moves + 1 ELSE moves
    /\ UNCHANGED <<strategy, alive, unwinding, caught, phase, kind, cap, fut,
                   result, storage, buffer, vtable, heap, pinned, polls,
                   lastPoll, direct, directPoll, pollAddrs, drops, thread, log>>

\* the caller pins the container where it is (.await, pin!, Pin::new)
PinIt ==
    /\ phase = "built" /\ alive /\ ~unwinding
    /\ ~pinned
    /\ pinned' = TRUE
    /\ UNCHANGED <<strategy, alive, unwinding, caught, phase, kind, cap, fut,
                   result, storage, buffer, vtable, heap, caddr, nmoves, moves,
                   polls, lastPoll, direct, directPoll, pollAddrs, drops,
                   thread, log>>

\* Future::poll of the container; the reference copy of F is polled with it
Poll ==
    /\ phase = "built" /\ alive /\ ~unwinding
    /\ pinned
    /\ polls < MaxPolls
    /\ lastPoll.tag # "Ready"
    /\ LET ptr == as_mut_ptr(storage, caddr) IN
       \E o \in Container_poll(storage, vtable, buffer, caddr) :
          /\ buffer' = o.bytes
          /\ storage' = o.state
          /\ lastPoll' = o.res
          /\ pollAddrs' = pollAddrs \cup {ptr}
          /\ log' = Append(log, Event("poll", ptr, 0, 0))
          /\ IF o.res = PollPanic
             THEN IF strategy = "abort"
                  THEN alive' = FALSE /\ phase' = "aborted" /\ unwinding' = unwinding
                  ELSE alive' = alive /\ phase' = phase /\ unwinding' = TRUE
             ELSE UNCHANGED <<alive, phase, unwinding>>
    /\ LET d == CHOOSE d \in PollOutcomes(fut, direct, DirectAddr) : TRUE IN
          /\ direct' = d.st
          /\ directPoll' = d.res
    /\ polls' = polls + 1
    /\ UNCHANGED <<strategy, caught, kind, cap, fut, result, vtable,
                   heap, caddr, pinned, nmoves, moves, drops, thread>>

\* the container is handed to another thread; the type must be Send
Transfer ==
    /\ phase = "built" /\ alive /\ ~unwinding
    /\ IsSend(kind)
    /\ thread = 1
    /\ thread' = 2
    /\ UNCHANGED <<strategy, alive, unwinding, caught, phase, kind, cap, fut,
                   result, storage, buffer, vtable, heap, caddr, pinned, nmoves,
                   moves, polls, lastPoll, direct, directPoll, pollAddrs,
                   drops, log>>

\* Drop of the container (end of scope, or a frame unwound by a panic):
\* Drop::drop calls the table's drop on the storage, after which the fields
\* are dropped, the HeapBuffer deallocating its block
Release ==
    /\ phase = "built" /\ alive
    /\ LET ptr == as_mut_ptr(storage, caddr) IN
       /\ buffer' = VTable_drop(vtable, buffer)
       /\ drops' = drops + 1
       /\ log' = log \o Container_drop(storage, ptr, heap)
       /\ heap' = (IF storage = "Heap" THEN [heap EXCEPT !.live = FALSE] ELSE heap)
    /\ phase' = "released"
    /\ UNCHANGED <<strategy, alive, unwinding, caught, kind, cap, fut, result,
                   storage, vtable, caddr, pinned, nmoves, moves, polls,
                   lastPoll, direct, directPoll, pollAddrs, thread>>

\* the caller catches the panic (catch_unwind, a runtime's task boundary)
\* once every frame below has been unwound, and the program goes on
CatchUnwind ==
    /\ alive /\ unwinding
    /\ phase \in {"panicked", "released"}
    /\ unwinding' = FALSE
    /\ caught' = TRUE
    /\ UNCHANGED <<strategy, alive, phase, kind, cap, fut, result, storage,
                   buffer, vtable, heap, caddr, pinned, nmoves, moves, polls,
                   lastPoll, direct, directPoll, pollAddrs, drops, thread, log>>

Next ==
    \/ phase = "start" /\ \E k \in FixedKinds, n \in Caps, f \in Futures : NewFixed(k, n, f)
    \/ phase = "start" /\ \E k \in SmallKinds, n \in Caps, f \in Futures, null \in BOOLEAN :
                              NewSmall(k, n, f, null)
    \/ \E a \in Addrs : Move(a)
    \/ PinIt
    \/ Poll
    \/ Transfer
    \/ Release
    \/ CatchUnwind

Spec == Init /\ [][Next]_vars

TypeOK ==
    /\ phase \in {"start", "built", "error", "panicked", "aborted", "released"}
    /\ storage \in {"None", "Inline", "Heap"}
    /\ drops \in 0..2
    /\ polls \in 0..MaxPolls

(* ------------------------------ claims --------------------------------- *)
\* F passes the fit test of the fixed-capacity constructors
Fits == fut.size <= cap /\ fut.align <= BufferAlign

\* new has returned or panicked
Constructed == phase # "start"

\* the stored future was never polled at two different addresses
PolledInPlace == Cardinality(pollAddrs) <= 1

\* number of events of one operation in the log
CountOp(op) == Cardinality({ i \in 1..Len(log) : log[i].op = op })

C2_SizeError ==
    (kind \in FixedKinds /\ Constructed /\ fut.size > cap) =>
        /\ result = SizeTooLarge(fut.size, cap)
        /\ phase = "error"
        /\ storage = "None"

C2_Witness ==
    /\ kind \in FixedKinds /\ phase = "error"
    /\ fut.size = 1024 /\ cap = 16
    /\ result = SizeTooLarge(1024, 16)

\* C3 as stated: a future with align > 8 is refused with the alignment error
\* whatever its size.
C3_AlignErrorWhateverSize ==
    (kind \in FixedKinds /\ Constructed /\ fut.align > BufferAlign) =>
        result = AlignmentMismatch(fut.align, BufferAlign)

\* C3 amended: a future with align > 8 is always refused; the error is
\* AlignmentMismatch{alignment: align_of(F), expected: 8} when size <= N, and
\* the size error when size > N, the size check coming first.
C3_AlignErrorWhenSizeFits ==
    (kind \in FixedKinds /\ Constructed /\ fut.align > BufferAlign) =>
        /\ phase = "error"
        /\ storage = "None"
        /\ result = (IF fut.size <= cap
                     THEN AlignmentMismatch(fut.align, BufferAlign)
                     ELSE SizeTooLarge(fut.size, cap))

C3_Witness ==
    /\ kind \in FixedKinds /\ phase = "error"
    /\ fut.align = 256 /\ fut.size = 1024 /\ cap = 1024
    /\ result = AlignmentMismatch(256, 8)

\* C4 as stated: when construction fails on the size, the destructor of the
\* future handed in has not run when new returns Err.
C4_NoDestructorOnSizeError ==
    (kind \in FixedKinds /\ result.tag = "SizeTooLarge") => drops = 0

\* C4 amended: when construction fails on the size, nothing is left alive:
\* the future, owned by new, is dropped exactly once at the Err return; it was
\* never written to a buffer and the dispatch table's drop never ran.
C4_DroppedOnceOnSizeError ==
    (kind \in FixedKinds /\ result.tag = "SizeTooLarge") =>
        /\ drops = 1
        /\ moves = 0
        /\ buffer = NoState
        /\ storage = "None"
        /\ CountOp("drop") = 0

C4_Witness ==
    /\ kind \in FixedKinds /\ result.tag = "SizeTooLarge"
    /\ phase = "error" /\ drops = 1

\* C5: the adaptive constructors never return an error; they return a
\* container whenever the allocator supplies the block (no block is asked for
\* when F fits); a future failing the fit test is held in Heap storage, and
\* the polls of the container return what the polls of F return.
C5_AdaptiveAlwaysBuilds ==
    (kind \in SmallKinds /\ Constructed) =>
        /\ result \in {Ok, AllocPanic}
        /\ result = AllocPanic => (~Fits /\ CountOp("alloc") = 1)
        /\ (result = Ok /\ ~Fits) => storage = "Heap"
        /\ (result = Ok /\ polls > 0) =>
              /\ lastPoll = directPoll
              /\ lastPoll = (IF polls <= fut.steps THEN Pending
                             ELSE IF fut.panics THEN PollPanic
                             ELSE Ready(fut.out))

C5_Witness ==
    /\ kind \in SmallKinds /\ ~Fits /\ storage = "Heap"
    /\ polls = 2 /\ lastPoll = Ready(fut.out)

\* C6: for every container that was built, the future's destructor has not
\* run while the container lives and has run exactly once, through the
\* dispatch table, when it is released: before any poll, after completion,
\* or by the unwinding of a panic raised in a poll.
C6_DroppedExactlyOnce ==
    result = Ok =>
        /\ phase = "built" => (drops = 0 /\ buffer.live)
        /\ phase = "released" => (drops = 1 /\ ~buffer.live)
        /\ drops <= 1
        /\ CountOp("drop") = drops

C6_Witness ==
    /\ result = Ok /\ phase = "released"
    /\ unwinding /\ lastPoll = PollPanic
    /\ drops = 1

\* C7: from its first poll to its release, the stored future of every
\* container type is polled at one and the same address.
C7_PolledAtOneAddress ==
    (result = Ok /\ polls > 0) => PolledInPlace

\* C8 as stated: a 1024-byte future (align <= 8) in an adaptive container of
\* capacity 1024 is held in Heap storage.
C8_Heap1024In1024 ==
    (kind \in SmallKinds /\ Constructed /\ fut.size = 1024 /\ cap = 1024
        /\ fut.align <= BufferAlign) =>
        /\ result = Ok
        /\ storage = "Heap"

\* C8 amended: a 1024-byte future (align <= 8) in an adaptive container of
\* capacity 1024 fits (1024 <= 1024) and is held Inline; nothing is asked of
\* the allocator, construction succeeds and the polls return F's results.
\* In a container of smaller capacity it is held in Heap storage.
C8_Inline1024In1024 ==
    (kind \in SmallKinds /\ Constructed /\ fut.size = 1024
        /\ fut.align <= BufferAlign) =>
        /\ cap = 1024 =>
              /\ result = Ok
              /\ storage = "Inline"
              /\ CountOp("alloc") = 0
        /\ (cap < 1024 /\ result = Ok) => storage = "Heap"
        /\ (result = Ok /\ polls > 0) => lastPoll = directPoll

C8_Witness ==
    /\ kind \in SmallKinds /\ fut.size = 1024 /\ cap = 1024
    /\ fut.align <= BufferAlign
    /\ storage = "Inline" /\ lastPoll = Ready(fut.out)

\* C9: when the allocator returns null during adaptive construction the
\* process is terminated.
C9_AllocFailureTerminates ==
    result = AllocPanic => ~alive

\* C10: a container whose type is Send holds a future that is Send.
C10_SendHoldsSend ==
    (phase = "built" /\ IsSend(kind)) => fut.send

\* positions in the log of the events of one operation
OpIdx(op) == { i \in 1..Len(log) : log[i].op = op }

\* C11: for an adaptive container in the Heap state the block is asked for
\* once, with the layout of F; it is deallocated only by the release, once,
\* with the layout it was allocated with; the table's drop on the block comes
\* right before the deallocation, and no poll or drop follows it.
C11_DestroyThenDealloc ==
    (kind \in SmallKinds /\ storage = "Heap") =>
        /\ OpIdx("alloc") = {1}
        /\ log[1] = Event("alloc", HeapAddr, fut.size, fut.align)
        /\ CountOp("dealloc") <= 1
        /\ (phase = "released") <=> (CountOp("dealloc") = 1)
        /\ heap.live <=> (phase # "released")
        /\ \A i \in OpIdx("poll") \cup OpIdx("drop") : log[i].addr = HeapAddr
        /\ \A i \in OpIdx("dealloc") :
              /\ log[i].addr = log[1].addr
              /\ log[i].size = log[1].size
              /\ log[i].align = log[1].align
              /\ i > 1
              /\ log[i - 1].op = "drop"
              /\ \A j \in OpIdx("poll") \cup OpIdx("drop") : j < i

C11_Witness ==
    /\ kind \in SmallKinds /\ storage = "Heap" /\ phase = "released"
    /\ fut.align = 256 /\ fut.size = 1024
    /\ polls = 2 /\ CountOp("dealloc") = 1

\* C12: an adaptive container built from a future that fits (size <= N,
\* align <= 8) is in the Inline state, and nothing is ever asked of the
\* allocator: no block is allocated or deallocated in its construction, its
\* polls or its release.
C12_FittingIsInline ==
    (kind \in SmallKinds /\ Constructed /\ Fits) =>
        /\ result = Ok
        /\ storage = "Inline"
        /\ heap = NoHeap
        /\ CountOp("alloc") = 0
        /\ CountOp("dealloc") = 0

C12_Witness ==
    /\ kind \in SmallKinds /\ Fits /\ fut.size = cap /\ fut.align = BufferAlign
    /\ storage = "Inline" /\ phase = "released"
    /\ polls = 2 /\ lastPoll.tag = "Ready"

\* C13: once an adaptive container is built, no step changes its storage
\* kind, its dispatch table, its capacity or the layout of its block; a poll
\* leaves the block allocated, runs no destructor and does not move the
\* container.
C13_StorageKindFixed ==
    [][ (kind \in SmallKinds /\ phase \in {"built", "released"}) =>
           /\ storage' = storage
           /\ vtable' = vtable
           /\ cap' = cap
           /\ heap'.size = heap.size /\ heap'.align = heap.align
           /\ (polls' # polls) =>
                 (heap' = heap /\ drops' = drops /\ caddr' = caddr) ]_vars

C13_Witness ==
    /\ kind \in SmallKinds /\ storage = "Heap" /\ phase = "released"
    /\ polls = 2 /\ lastPoll.tag = "Ready"
    /\ vtable = VTable_lit(fut)

\* C14: every request made to the allocator has a size greater than zero.
C14_AllocSizeNonZero ==
    \A i \in OpIdx("alloc") : log[i].size > 0

====
